---- MODULE Spec2Model ----
(***************************************************************************)
(* Model of the LlamaEdge query server request pipeline:                   *)
(*   src/src/main.rs             Cli, handle_request                       *)
(*   src/src/backend/mod.rs      QueryType, handle_query_request           *)
(*   src/src/backend/requests.rs query_handler, consult                    *)
(*   src/src/search/mod.rs       SearchBackends, From<String>              *)
(*                                                                         *)
(* One request is followed from its arrival to its response.  The code     *)
(* between two await points runs without interruption, so there is one     *)
(* action per await point of query_handler: the body read and everything   *)
(* up to the completion-service call, the completion-service reply and     *)
(* everything up to the provider call, and the provider reply.             *)
(***************************************************************************)
EXTENDS Integers, Sequences, FiniteSets, TLC

(***************************************************************************)
(* Bounds of the model.                                                    *)
(***************************************************************************)
\* client-supplied numbers range up to MaxOver above each threshold
MaxOver == 1

(***************************************************************************)
(* Program constants.                                                      *)
(***************************************************************************)
U8_MAX == 255
U16_MAX == 65535
\* u64::MAX is only ever passed through min(U8_MAX) or min(U16_MAX); any
\* value above U16_MAX + MaxOver behaves the same, and TLC integers are 32 bit
U64_MAX == 2147483647
DefaultMaxSearchResults == 5
DefaultSizePerSearchResult == 400

(***************************************************************************)
(* serde_json::Value, as far as the handler looks at it.  Every value is a *)
(* record of the same shape: t is the JSON type ("absent" stands for a key *)
(* that is not in the object, which Value::get reports as None and         *)
(* Index reports as Value::Null), s the string and n the number.           *)
(***************************************************************************)
JAbsent == [t |-> "absent", s |-> "", n |-> 0]
JNull == [t |-> "null", s |-> "", n |-> 0]
JStr(str) == [t |-> "str", s |-> str, n |-> 0]
JNum(num) == [t |-> "num", s |-> "", n |-> num]
JBool(b) == [t |-> "bool", s |-> "", n |-> IF b THEN 1 ELSE 0]
\* an array of search results, as produced by the provider parser
JResults == [t |-> "array", s |-> "results", n |-> 0]

\* Value::get(key): None for a missing key
IsSome(j) == j.t # "absent"
\* Value::as_str(): Some only for a JSON string
IsStr(j) == j.t = "str"
\* Value::as_u64(): Some only for a non-negative integer
IsU64(j) == j.t = "num" /\ j.n >= 0
\* Value::is_boolean()
IsBoolean(j) == j.t = "bool"
\* Value::is_null() of value[key]: indexing a missing key yields Null
IsNull(j) == j.t \in {"absent", "null"}
\* Value::as_bool().unwrap() after is_boolean()
AsBool(j) == j.n = 1

Min(a, b) == IF a <= b THEN a ELSE b
\* the casts `as u8` and `as u16` of a u64 truncate
AsU8(x) == x % (U8_MAX + 1)
AsU16(x) == x % (U16_MAX + 1)

(***************************************************************************)
(* QueryType (backend/mod.rs) and SearchBackends (search/mod.rs).          *)
(***************************************************************************)
QueryType == {"Decision", "Complete", "Summarize"}

\* enum SearchBackends.  query_handler also has arms for a variant
\* LocalSearchServer, which the enum does not list and From never yields;
\* the arms are kept in the operators below as they are written.
SearchBackends == {"Tavily", "Bing", "Unknown"}

\* impl From<String> for SearchBackends
SearchBackendsFrom(search_backend) ==
  CASE search_backend = "tavily" -> "Tavily"
    [] search_backend = "bing" -> "Bing"
    [] OTHER -> "Unknown"

\* bytes_json["backend"].as_str().unwrap_or("")
BackendString(backend) == IF IsStr(backend) THEN backend.s ELSE ""

(***************************************************************************)
(* error.rs is not part of the sources at hand; the status of each helper  *)
(* is the one its name and the interface description give it.              *)
(***************************************************************************)
NoJson == [decision |-> FALSE, key |-> "", val |-> JAbsent]
bad_request(msg) ==
  [status |-> 400, content |-> "text", text |-> msg, json |-> NoJson]
internal_server_error(msg) ==
  [status |-> 500, content |-> "text", text |-> msg, json |-> NoJson]
\* Response::builder() ... .body(Body::from(body)): status 200, JSON body
JsonResponse(decision, key, val) ==
  [status |-> 200, content |-> "json", text |-> "",
   json |-> [decision |-> decision, key |-> key, val |-> val]]
\* no response has been produced (yet)
NoResponse == [status |-> 0, content |-> "none", text |-> "", json |-> NoJson]

(***************************************************************************)
(* Cli (main.rs): the startup configuration the handlers read.             *)
(***************************************************************************)
Clis ==
  [server : BOOLEAN,
   max_search_results : {DefaultMaxSearchResults},
   size_per_search_result : {DefaultSizePerSearchResult}]

(***************************************************************************)
(* `u8::max as u64` and `u16::max as u64` (requests.rs 69, 73) cast the    *)
(* function Ord::max to an integer: its address on a native build, its     *)
(* index in the function table on a wasm build.  The value depends on the  *)
(* build, so it is chosen among some large and some small values.          *)
(***************************************************************************)
Builds ==
  {[u8_max_fn |-> 70000, u16_max_fn |-> 70016],
   [u8_max_fn |-> 3, u16_max_fn |-> 4]}

(***************************************************************************)
(* Requests: the route and the body of a POST to /query/...                *)
(***************************************************************************)
\* numbers a client may send for a limit whose server value is c and whose
\* integer type ends at top
ClientNums(c, top) == {0} \cup (c .. c + MaxOver) \cup (top .. top + MaxOver)

BackendFields ==
  {JAbsent, JNum(1), JStr("tavily"), JStr("bing"),
   JStr("local_search_server"), JStr("foo")}
QueryFields == {JAbsent, JNum(1), JStr("q")}
ApiKeyFields == {JAbsent, JNum(1), JStr("key")}
EndpointFields == {JAbsent, JNum(1), JStr("http://search")}
MaxResultsFields ==
  {JAbsent, JStr("many")} \cup
  {JNum(k) : k \in ClientNums(DefaultMaxSearchResults, U8_MAX)}
SizeLimitFields ==
  {JAbsent, JStr("big")} \cup
  {JNum(k) : k \in ClientNums(DefaultSizePerSearchResult, U16_MAX)}

\* body: "unreadable" (to_bytes fails), "malformed" (not JSON), "json";
\* search_config: whether the body has the key; the four fields below it are
\* the keys of that object
NoBody(qt, b) ==
  [query_type |-> qt, body |-> b, search_config |-> FALSE,
   backend |-> JAbsent, query |-> JAbsent,
   max_search_results |-> JAbsent, size_limit_per_result |-> JAbsent,
   api_key |-> JAbsent, endpoint |-> JAbsent]

Requests ==
  {NoBody(qt, b) : qt \in QueryType, b \in {"unreadable", "malformed"}}
  \cup
  {[NoBody(qt, "json") EXCEPT !.backend = be, !.query = q] :
     qt \in QueryType, be \in BackendFields, q \in QueryFields}
  \cup
  [query_type : QueryType, body : {"json"}, search_config : {TRUE},
   backend : BackendFields, query : QueryFields,
   max_search_results : MaxResultsFields,
   size_limit_per_result : SizeLimitFields,
   api_key : ApiKeyFields, endpoint : EndpointFields]

NoRequest == NoBody("Decision", "none")

(***************************************************************************)
(* SearchConfig construction (requests.rs 63-160).                         *)
(***************************************************************************)
NoConfig ==
  [search_engine |-> "", max_search_results |-> 0,
   size_limit_per_result |-> 0, endpoint |-> "", method |-> "",
   additional_headers |-> ""]

\* request_search_config[key].as_u64().unwrap_or(fallback)  (lines 66-68)
IndexU64Or(field, fallback) == IF IsU64(field) THEN field.n ELSE fallback

\* request_search_config.get(key).unwrap_or(&Value::from(u64::MAX))
\*   .as_u64().unwrap_or(fallback)                          (lines 105-109)
GetU64Or(field, fallback) ==
  IF IsSome(field) THEN IndexU64Or(field, fallback) ELSE U64_MAX

TavilyConfig(r, c, b) ==
  [search_engine |-> "tavily",
   max_search_results |->
     AsU8(Min(IndexU64Or(r.max_search_results, c.max_search_results),
              b.u8_max_fn)),
   size_limit_per_result |->
     AsU16(Min(IndexU64Or(r.size_limit_per_result, c.size_per_search_result),
               b.u16_max_fn)),
   endpoint |-> "https://api.tavily.com/search",
   method |-> "POST",
   additional_headers |-> ""]

BingConfig(r, c, b) ==
  [search_engine |-> "bing",
   max_search_results |->
     AsU8(Min(GetU64Or(r.max_search_results, c.max_search_results), U8_MAX)),
   size_limit_per_result |->
     AsU16(Min(GetU64Or(r.size_limit_per_result, c.size_per_search_result),
               U16_MAX)),
   endpoint |-> "https://api.bing.microsoft.com/v7.0/search",
   method |-> "GET",
   additional_headers |-> r.api_key.s]

LocalConfig(r, c, b) ==
  [search_engine |-> "google",
   max_search_results |->
     AsU8(Min(GetU64Or(r.max_search_results, c.max_search_results), U8_MAX)),
   size_limit_per_result |->
     AsU16(Min(GetU64Or(r.size_limit_per_result, c.size_per_search_result),
               U16_MAX)),
   endpoint |->
     IF IsSome(r.endpoint) THEN r.endpoint.s
     ELSE "https://localhost:3000/search",
   method |-> "POST",
   additional_headers |-> ""]

\* .as_str().unwrap() of the endpoint (lines 141-145) panics for a
\* supplied endpoint that is not a string
LocalEndpointPanics(r) == IsSome(r.endpoint) /\ ~IsStr(r.endpoint)

(***************************************************************************)
(* Outcome of a stretch of handler code: it returns a response             *)
(* ("respond"), panics ("panic"), or arrives at an await of an outbound    *)
(* call ("call").  checks lists the checks the stretch went through, in    *)
(* the order of the code.                                                  *)
(***************************************************************************)
NoCall ==
  [svc |-> "", engine |-> "", endpoint |-> "", method |-> "",
   query |-> "", max_results |-> 0, api_key |-> ""]
ChatCall(q) == [NoCall EXCEPT !.svc = "chat", !.query = q]
\* search_config.perform_search(&input) / summarize_search(&input)
SearchCall(svc, cfg, q, key) ==
  [svc |-> svc, engine |-> cfg.search_engine, endpoint |-> cfg.endpoint,
   method |-> cfg.method, query |-> q,
   max_results |-> cfg.max_search_results,
   api_key |-> IF cfg.search_engine = "bing" THEN cfg.additional_headers
               ELSE key]

Respond(checks, response) ==
  [kind |-> "respond", checks |-> checks, resp |-> response,
   cfg |-> NoConfig, call |-> NoCall]
Panic(checks) ==
  [kind |-> "panic", checks |-> checks, resp |-> NoResponse,
   cfg |-> NoConfig, call |-> NoCall]
Await(checks, cfg, call) ==
  [kind |-> "call", checks |-> checks, resp |-> NoResponse,
   cfg |-> cfg, call |-> call]

(***************************************************************************)
(* query_handler, lines 15-186: from the body to the call of consult.      *)
(***************************************************************************)
\* ServerModeCheck without the test of the query type
ServerModeCheck_LocalOnly(c, search_backend, query_type) ==
  IF c.server /\ search_backend = "LocalSearchServer"
  THEN "The \"backend local_search_server\" is only allowed on servers configured without --server.\n"
  ELSE ""

\* lines 48-60: the message of the restriction that applies, "" if none
ServerModeCheck(c, search_backend, query_type) ==
  IF c.server
  THEN IF search_backend = "LocalSearchServer"
       THEN "The \"backend local_search_server\" is only allowed on servers configured without --server.\n"
       ELSE IF query_type = "Summarize"
            THEN "Summary generation endpoint is only available on servers configured without --server.\n"
            ELSE ""
  ELSE ""

\* lines 161-175, then the call of consult at line 178
QueryCheck(r, cfg, checks) ==
  LET checks1 == Append(checks, "query") IN
  IF IsSome(r.query)
  THEN IF IsStr(r.query)
       THEN Await(Append(checks1, "consult"), cfg, ChatCall(r.query.s))
       ELSE [Respond(checks1,
               internal_server_error("The query supplied is not a String.\n"))
             EXCEPT !.cfg = cfg]
  ELSE [Respond(checks1, bad_request("No query received.\n"))
        EXCEPT !.cfg = cfg]

\* lines 83-100: the Bing api key is read while the SearchConfig is built
BingApiKeyCheck(r, c, b, checks) ==
  LET checks1 == Append(checks, "api_key") IN
  IF IsSome(r.api_key)
  THEN IF IsStr(r.api_key)
       THEN QueryCheck(r, BingConfig(r, c, b), checks1)
       ELSE Respond(checks1,
              internal_server_error("invalid Bing API key supplied.\n"))
  ELSE Respond(checks1, bad_request("no Bing API key supplied.\n"))

\* lines 63-160: match search_backend
BuildSearchConfig(r, c, b, search_backend, checks) ==
  LET checks1 == Append(checks, "backend") IN
  CASE search_backend = "Tavily" -> QueryCheck(r, TavilyConfig(r, c, b), checks1)
    [] search_backend = "Bing" -> BingApiKeyCheck(r, c, b, checks1)
    [] search_backend = "LocalSearchServer" ->
         IF LocalEndpointPanics(r)
         THEN Panic(Append(checks1, "endpoint"))
         ELSE QueryCheck(r, LocalConfig(r, c, b), checks1)
    [] OTHER ->
         Respond(checks1,
           bad_request("Unknown backend mentioned.\nUsage: tavily, bing, local_search_server.\n"))

\* lines 15-60
HandlerPrefix(r, c, b) ==
  IF r.body = "unreadable"
  THEN Respond(<<"to_bytes">>,
         internal_server_error("Error while converting request body into bytes: "))
  ELSE IF r.body = "malformed"
  THEN Respond(<<"to_bytes", "from_slice">>,
         internal_server_error("Error while converting request body into json object: "))
  ELSE IF ~r.search_config
  THEN Respond(<<"to_bytes", "from_slice", "search_config">>,
         internal_server_error("Unable to extract search_config object from request.\n"))
  ELSE
    LET search_backend == SearchBackendsFrom(BackendString(r.backend))
        checks == <<"to_bytes", "from_slice", "search_config", "server_mode">>
        restriction == ServerModeCheck(c, search_backend, r.query_type)
    IN IF restriction # ""
       THEN Respond(checks, bad_request(restriction))
       ELSE BuildSearchConfig(r, c, b, search_backend, checks)

(***************************************************************************)
(* consult (requests.rs 427-583).  A reply of the completion service is    *)
(* the result of llama_core::chat::chat: an error, a stream, or a          *)
(* ChatCompletionObject, of which consult reads choices[0], its            *)
(* tool_calls[0], the type and the name of that call, and its arguments.   *)
(***************************************************************************)
FinishReasons == {"tool_calls", "stop"}
ArgSearchRequired == {JAbsent, JStr("yes"), JBool(TRUE), JBool(FALSE)}
ArgQuery == {JAbsent, JNull, JStr("term"), JNum(1)}

NoReply ==
  [kind |-> "none", finish_reason |-> "", choices |-> 0, tool_calls |-> 0,
   ty |-> "", name |-> "", parses |-> FALSE,
   search_required |-> JAbsent, query |-> JAbsent]
ToolCallReply(fr, ty, name) ==
  [NoReply EXCEPT !.kind = "object", !.finish_reason = fr, !.choices = 1,
                  !.tool_calls = 1, !.ty = ty, !.name = name]

ChatReplies ==
  {[NoReply EXCEPT !.kind = "err"], [NoReply EXCEPT !.kind = "stream"],
   [NoReply EXCEPT !.kind = "object"]}
  \cup
  {[NoReply EXCEPT !.kind = "object", !.finish_reason = fr, !.choices = 1] :
     fr \in FinishReasons}
  \cup
  {ToolCallReply(fr, ty, name) :
     fr \in FinishReasons, ty \in {"function", "other"},
     name \in {"search_required", "other"}}
  \cup
  {[ToolCallReply(fr, "function", "search_required")
      EXCEPT !.parses = TRUE, !.search_required = sr, !.query = q] :
     fr \in FinishReasons, sr \in ArgSearchRequired, q \in ArgQuery}

\* struct ConsultResponse, wrapped in the Result of consult; query is
\* JAbsent for None and a JSON string for Some
NoVerdict == [kind |-> "none", decision |-> FALSE, query |-> JAbsent]
ConsultErr == [NoVerdict EXCEPT !.kind = "err"]
ConsultPanic == [NoVerdict EXCEPT !.kind = "panic"]
ConsultOk(decision, query) ==
  [kind |-> "ok", decision |-> decision, query |-> query]

\* BuildConsultResponse that copies the query argument whatever the decision
BuildConsultResponse_CopyQuery(arguments) ==
  IF IsStr(arguments.query)
  THEN ConsultOk(AsBool(arguments.search_required), JStr(arguments.query.s))
  ELSE IF AsBool(arguments.search_required) THEN ConsultPanic
       ELSE ConsultOk(FALSE, JAbsent)

\* lines 574-582
BuildConsultResponse(arguments) ==
  IF AsBool(arguments.search_required)
  THEN IF IsStr(arguments.query)
       THEN ConsultOk(TRUE, JStr(arguments.query.s))
       ELSE ConsultPanic
  ELSE ConsultOk(FALSE, JAbsent)

\* ToolCallValid without the is_boolean test of search_required
ToolCallValid_NoBooleanCheck(tool_call) ==
  /\ ~(tool_call.ty # "function" \/ tool_call.name # "search_required")
  /\ tool_call.parses
  /\ ~(AsBool(tool_call.search_required) /\ IsNull(tool_call.query))

\* lines 547-571: the checks on the tool call
ToolCallValid(tool_call) ==
  /\ ~(tool_call.ty # "function" \/ tool_call.name # "search_required")
  /\ tool_call.parses
  /\ IsBoolean(tool_call.search_required)
  /\ ~(AsBool(tool_call.search_required) /\ IsNull(tool_call.query))

\* Consult that goes on to read a stream result as if it were an object
Consult_StreamRead(reply) ==
  IF reply.kind = "err" THEN ConsultErr
  ELSE IF reply.choices = 0 \/ reply.tool_calls = 0 THEN ConsultPanic
  ELSE IF ~ToolCallValid(reply) THEN ConsultErr
  ELSE BuildConsultResponse(reply)

\* lines 518-583
Consult(reply) ==
  IF reply.kind \in {"err", "stream"} THEN ConsultErr
  ELSE IF reply.choices = 0 \/ reply.tool_calls = 0 THEN ConsultPanic
  ELSE IF ~ToolCallValid(reply) THEN ConsultErr
  ELSE BuildConsultResponse(reply)

(***************************************************************************)
(* query_handler, lines 192-397: the three kinds of response.              *)
(***************************************************************************)
\* Option<String>::unwrap_or(default)
UnwrapOr(opt, default) == IF IsSome(opt) THEN opt.s ELSE default

\* lines 218-240 and 316-338: TavilySearchInput, with the api key checks
TavilySearch(svc, r, cfg, v, missing_msg) ==
  IF IsSome(r.api_key)
  THEN IF IsStr(r.api_key)
       THEN Await(<<"api_key", svc>>, cfg,
                  SearchCall(svc, cfg, UnwrapOr(v.query, ""), r.api_key.s))
       ELSE Respond(<<"api_key">>,
                    bad_request("Invalid Tavily API key supplied.\n"))
  ELSE Respond(<<"api_key">>, internal_server_error(missing_msg))

\* lines 216-290 and 314-388: match search_backend
SearchByBackend(svc, r, cfg, v, missing_msg, unknown_msg) ==
  LET search_backend == SearchBackendsFrom(BackendString(r.backend)) IN
  CASE search_backend = "Tavily" -> TavilySearch(svc, r, cfg, v, missing_msg)
    [] search_backend \in {"Bing", "LocalSearchServer"} ->
         Await(<<svc>>, cfg, SearchCall(svc, cfg, UnwrapOr(v.query, ""), ""))
    [] OTHER -> Respond(<<>>, bad_request(unknown_msg))

\* DecisionArm that goes on to the search when the verdict asks for one
DecisionArm_Searches(r, cfg, v) ==
  IF ~v.decision
  THEN Respond(<<"respond">>,
         JsonResponse(v.decision, "query", JStr(UnwrapOr(v.query, "null"))))
  ELSE SearchByBackend("perform_search", r, cfg, v,
         "no Tavily API key supplied.\n",
         "Unknown backend mentioned.\nUsage: tavily, bing, local_search_server\n")

\* DecisionArm that leaves an absent query as a JSON null
DecisionArm_JsonNull(r, cfg, v) ==
  Respond(<<"respond">>,
          JsonResponse(v.decision, "query",
                       IF IsSome(v.query) THEN JStr(v.query.s) ELSE JNull))

\* lines 194-200
DecisionArm(r, cfg, v) ==
  Respond(<<"respond">>,
          JsonResponse(v.decision, "query", JStr(UnwrapOr(v.query, "null"))))

\* lines 202-298, up to the await of perform_search
CompleteArm(r, cfg, v) ==
  IF ~v.decision
  THEN Respond(<<"respond">>,
         JsonResponse(v.decision, "query", JStr(UnwrapOr(v.query, "null"))))
  ELSE SearchByBackend("perform_search", r, cfg, v,
         "no Tavily API key supplied.\n",
         "Unknown backend mentioned.\nUsage: tavily, bing, local_search_server\n")

\* lines 300-396, up to the await of summarize_search
SummarizeArm(r, cfg, v) ==
  IF ~v.decision
  THEN Respond(<<"respond">>,
         JsonResponse(v.decision, "results", JStr(UnwrapOr(v.query, "null"))))
  ELSE SearchByBackend("summarize_search", r, cfg, v,
         "No Tavily API key supplied\n",
         "unknown backend mentioned.\nUsage: tavily, bing, local_search_server")

\* line 192: match query_type
ResponseArm(r, cfg, v) ==
  CASE r.query_type = "Decision" -> DecisionArm(r, cfg, v)
    [] r.query_type = "Complete" -> CompleteArm(r, cfg, v)
    [] OTHER -> SummarizeArm(r, cfg, v)

\* SearchResponse that builds the body whatever the provider returned
SearchResponse_IgnoresFailure(svc, v, ok) ==
  IF svc = "perform_search"
  THEN JsonResponse(v.decision, "results", JResults)
  ELSE JsonResponse(v.decision, "results", JStr("summary"))

\* lines 241-249, 292-296 and 339-347, 390-394: the provider has answered
SearchResponse(svc, v, ok) ==
  IF ~ok
  THEN internal_server_error("Failed to perform internet search: ")
  ELSE IF svc = "perform_search"
       THEN JsonResponse(v.decision, "results", JResults)
       ELSE JsonResponse(v.decision, "results", JStr("summary"))

(***************************************************************************)
(* State.  The server runs on a current-thread runtime (main.rs 104): one  *)
(* handler future is polled at a time, and the others wait at their await  *)
(* points.  pc .. result are the locals of the future being polled, tasks  *)
(* holds the locals of the futures that wait.                              *)
(***************************************************************************)
VARIABLES
  cli,            \* the Cli set at startup (main.rs 184)
  build,          \* the build-dependent values of Builds
  pc,             \* where the request is: "idle", "consult", "search",
                  \* "done" (a response was returned), "aborted" (panic)
  req,            \* the request being handled
  search_config,  \* the SearchConfig built for it
  reply,          \* what the completion service answered
  verdict,        \* consultation_response
  calls,          \* the outbound calls made for the request, in order
  checks,         \* the checks the handler went through, in order
  resp,           \* the response returned
  result,         \* what the provider answered: "none", "ok", "err"
  tasks           \* the locals of the handler futures that are not polled

vars ==
  <<cli, build, pc, req, search_config, reply, verdict, calls, checks, resp,
    result, tasks>>

\* the number of handler futures besides the one being polled
MaxWaiting == 1

\* the locals of a handler future
Locals ==
  [pc |-> pc, req |-> req, search_config |-> search_config,
   reply |-> reply, verdict |-> verdict, calls |-> calls,
   checks |-> checks, resp |-> resp, result |-> result]

\* a connection without a request
IdleLocals ==
  [pc |-> "idle", req |-> NoRequest, search_config |-> NoConfig,
   reply |-> NoReply, verdict |-> NoVerdict, calls |-> <<>>,
   checks |-> <<>>, resp |-> NoResponse, result |-> "none"]

\* the OnceCell CLI before CLI.set (main.rs 30)
NoCli ==
  [server |-> FALSE, max_search_results |-> 0, size_per_search_result |-> 0]

Init ==
  /\ cli \in Clis
  /\ build \in Builds
  /\ pc = "idle"
  /\ req = NoRequest
  /\ search_config = NoConfig
  /\ reply = NoReply
  /\ verdict = NoVerdict
  /\ calls = <<>>
  /\ checks = <<>>
  /\ resp = NoResponse
  /\ result = "none"
  /\ tasks = [i \in 1 .. MaxWaiting |-> IdleLocals]

\* where an outcome leaves the request
NextPc(o, awaiting) ==
  CASE o.kind = "respond" -> "done"
    [] o.kind = "panic" -> "aborted"
    [] OTHER -> awaiting

\* a request out of rs arrives and query_handler runs up to the call of
\* consult; the listener serves only once CLI is set (main.rs 184-199)
HandleRequestFrom(rs) ==
  /\ pc = "idle"
  /\ cli # NoCli
  /\ \E r \in rs :
       LET o == HandlerPrefix(r, cli, build) IN
       /\ req' = r
       /\ pc' = NextPc(o, "consult")
       /\ search_config' = o.cfg
       /\ checks' = o.checks
       /\ resp' = o.resp
       /\ calls' = IF o.kind = "call" THEN <<o.call>> ELSE <<>>
  /\ UNCHANGED <<cli, build, reply, verdict, result, tasks>>

HandleRequest == HandleRequestFrom(Requests)

\* the completion service answers with a reply out of as; consult and the
\* handler run up to the provider call or to the response
ChatReturnsFrom(as) ==
  /\ pc = "consult"
  /\ \E a \in as :
       LET v == Consult(a) IN
       /\ reply' = a
       /\ verdict' = v
       /\ CASE v.kind = "err" ->
                 /\ pc' = "done"
                 /\ resp' = internal_server_error(
                              "Error while generating response from LLM.\n")
                 /\ UNCHANGED <<calls, checks>>
            [] v.kind = "panic" ->
                 /\ pc' = "aborted"
                 /\ UNCHANGED <<calls, checks, resp>>
            [] OTHER ->
                 LET o == ResponseArm(req, search_config, v) IN
                 /\ pc' = NextPc(o, "search")
                 /\ checks' = checks \o o.checks
                 /\ resp' = o.resp
                 /\ calls' = IF o.kind = "call" THEN Append(calls, o.call)
                             ELSE calls
  /\ UNCHANGED <<cli, build, req, search_config, result, tasks>>

ChatReturns == ChatReturnsFrom(ChatReplies)

\* the provider answers and the handler builds the response
SearchReturns ==
  /\ pc = "search"
  /\ \E ok \in BOOLEAN :
       /\ result' = IF ok THEN "ok" ELSE "err"
       /\ resp' = SearchResponse(calls[Len(calls)].svc, verdict, ok)
       /\ checks' = IF ok THEN Append(checks, "respond") ELSE checks
  /\ pc' = "done"
  /\ UNCHANGED <<cli, build, req, search_config, reply, verdict, calls, tasks>>

\* the connection is done with; nothing of the request is kept
Close ==
  /\ pc \in {"done", "aborted"}
  /\ pc' = "idle"
  /\ req' = NoRequest
  /\ search_config' = NoConfig
  /\ reply' = NoReply
  /\ verdict' = NoVerdict
  /\ calls' = <<>>
  /\ checks' = <<>>
  /\ resp' = NoResponse
  /\ result' = "none"
  /\ UNCHANGED <<cli, build, tasks>>

Next == HandleRequest \/ ChatReturns \/ SearchReturns \/ Close

Spec == Init /\ [][Next]_vars

(***************************************************************************)
(* Several requests in flight.  main sets CLI and then serves (main.rs      *)
(* 184-199); each connection gets its own handler future (main.rs 189-194,  *)
(* handle_request); at an await the runtime may poll another future.  The   *)
(* requests and the replies are a few of Requests and ChatReplies that      *)
(* take the handler along each of its paths.                                *)
(***************************************************************************)
ConcRequest(qt, backend, key, max) ==
  [NoBody(qt, "json") EXCEPT !.search_config = TRUE, !.backend = JStr(backend),
                             !.query = JStr("q"), !.api_key = key,
                             !.max_search_results = max]

ConcRequests ==
  {ConcRequest("Complete", "tavily", JStr("key"), JNum(0)),
   ConcRequest("Summarize", "bing", JStr("key"), JAbsent),
   ConcRequest("Decision", "tavily", JAbsent, JAbsent),
   ConcRequest("Complete", "foo", JAbsent, JAbsent)}

ConcReplies ==
  {[NoReply EXCEPT !.kind = "err"],
   [NoReply EXCEPT !.kind = "object"],
   [ToolCallReply("tool_calls", "function", "search_required")
      EXCEPT !.parses = TRUE, !.search_required = JBool(TRUE),
             !.query = JStr("term")],
   [ToolCallReply("tool_calls", "function", "search_required")
      EXCEPT !.parses = TRUE, !.search_required = JBool(FALSE)]}

\* the OnceCell is empty until main has parsed the command line
InitConc ==
  /\ cli = NoCli
  /\ build \in Builds
  /\ pc = "idle"
  /\ req = NoRequest
  /\ search_config = NoConfig
  /\ reply = NoReply
  /\ verdict = NoVerdict
  /\ calls = <<>>
  /\ checks = <<>>
  /\ resp = NoResponse
  /\ result = "none"
  /\ tasks = [i \in 1 .. MaxWaiting |-> IdleLocals]

\* CLI.set(cli) (main.rs 184): fails if the cell is already set
SetCli ==
  /\ cli = NoCli
  /\ cli' \in Clis
  /\ UNCHANGED <<build, pc, req, search_config, reply, verdict, calls, checks,
                 resp, result, tasks>>

ConcHandleRequest == HandleRequestFrom(ConcRequests)

ConcChatReturns == ChatReturnsFrom(ConcReplies)

\* Resume with consultation_response kept outside the future
Resume_SharedVerdict(saved) == [saved EXCEPT !.verdict = verdict]

\* what a future finds in its locals when it is polled again: the locals of
\* an async fn live in its future (requests.rs 8-12)
Resume(saved) == saved

\* the runtime leaves the future it polls at its await and polls future i
Yield(i) ==
  /\ cli # NoCli
  /\ tasks' = [tasks EXCEPT ![i] = Locals]
  /\ LET l == Resume(tasks[i]) IN
       /\ pc' = l.pc
       /\ req' = l.req
       /\ search_config' = l.search_config
       /\ reply' = l.reply
       /\ verdict' = l.verdict
       /\ calls' = l.calls
       /\ checks' = l.checks
       /\ resp' = l.resp
       /\ result' = l.result
  /\ UNCHANGED <<cli, build>>

NextConc ==
  \/ SetCli
  \/ ConcHandleRequest
  \/ ConcChatReturns
  \/ SearchReturns
  \/ Close
  \/ \E i \in 1 .. MaxWaiting : Yield(i)

SpecConc == InitConc /\ [][NextConc]_vars

(***************************************************************************)
(* Vocabulary of the properties.                                           *)
(***************************************************************************)
ProviderCalls ==
  {i \in DOMAIN calls : calls[i].svc \in {"perform_search", "summarize_search"}}
ChatCalls == {i \in DOMAIN calls : calls[i].svc = "chat"}
Answered == pc = "done"
Accepted == verdict.kind = "ok"

(***************************************************************************)
(* C1: a request handled in Decision mode never makes a search-provider    *)
(* call (perform_search or summarize_search), whatever the verdict, the    *)
(* backend and the search_config.                                          *)
(***************************************************************************)
C1_DecisionNeverSearches ==
  req.query_type = "Decision" => ProviderCalls = {}

\* a Decision request whose verdict asks for a search has been answered
C1_Witness ==
  /\ Answered /\ req.query_type = "Decision"
  /\ Accepted /\ verdict.decision
  /\ resp.status = 200

(***************************************************************************)
(* C2: a Complete or Summarize request whose verdict has needs_search      *)
(* false is answered with exactly {"decision": false, "query": null}       *)
(* (key query, JSON null) and makes no provider call.                      *)
(***************************************************************************)
C2_NoSearchBody ==
  (/\ pc # "idle" /\ req.query_type \in {"Complete", "Summarize"}
   /\ Accepted /\ ~verdict.decision)
  => /\ Answered
     /\ resp = JsonResponse(FALSE, "query", JNull)
     /\ ProviderCalls = {}

(***************************************************************************)
(* C3: a request whose backend field is absent, not a string, or a string  *)
(* outside {tavily, bing, local_search_server} is answered 400 with the    *)
(* "Unknown backend mentioned." diagnostic and makes no provider call,     *)
(* whatever the query mode, the deployment mode and the other fields.      *)
(***************************************************************************)
UnknownBackendField(backend) ==
  ~IsStr(backend) \/ backend.s \notin {"tavily", "bing", "local_search_server"}

C3_UnknownBackend ==
  (pc # "idle" /\ req.body = "json" /\ UnknownBackendField(req.backend))
  => /\ Answered
     /\ resp = bad_request("Unknown backend mentioned.\nUsage: tavily, bing, local_search_server.\n")
     /\ ProviderCalls = {}

(***************************************************************************)
(* C4: the max_search_results of the SearchConfig built for a request is   *)
(* at most the server's max_search_results, and its size_limit_per_result  *)
(* at most the server's size_per_search_result, for every backend and      *)
(* every client-supplied search_config.                                    *)
(***************************************************************************)
C4_WithinCeilings ==
  search_config # NoConfig
  => /\ search_config.max_search_results <= cli.max_search_results
     /\ search_config.size_limit_per_result <= cli.size_per_search_result

(***************************************************************************)
(* C5: with the --server flag set, every request to /query/summarize and   *)
(* every request with backend "local_search_server" is answered 400,       *)
(* whatever its other fields (search_config present or not, query,         *)
(* api_key, endpoint).                                                     *)
(***************************************************************************)
C5_RestrictedIs400 ==
  (/\ cli.server /\ pc # "idle" /\ req.body = "json"
   /\ \/ req.query_type = "Summarize"
      \/ req.backend = JStr("local_search_server"))
  => (Answered /\ resp.status = 400)

C7_QueryIffDecision ==
  Accepted => (IsSome(verdict.query) <=> verdict.decision)

\* a payload with search_required false and a query was accepted
C7_Witness ==
  Accepted /\ ~verdict.decision /\ IsStr(reply.query)

(***************************************************************************)
(* C8: a Complete request with backend tavily, no api_key in its           *)
(* search_config and a verdict with needs_search true is answered 400 with *)
(* "no Tavily API key supplied.", and no provider call is made.            *)
(***************************************************************************)
C8_MissingTavilyKey ==
  (/\ req.query_type = "Complete" /\ req.backend = JStr("tavily")
   /\ req.search_config /\ ~IsSome(req.api_key)
   /\ Accepted /\ verdict.decision)
  => /\ Answered
     /\ resp = bad_request("no Tavily API key supplied.\n")
     /\ ProviderCalls = {}

(***************************************************************************)
(* C9 as stated: when the completion service returns a tool call that is   *)
(* structurally non-conforming (wrong function name or type, unparsable    *)
(* arguments, non-boolean search_required, or search_required true with a  *)
(* null query), consult issues the same request to the completion service  *)
(* again, and no error response goes to the HTTP caller.                   *)
(***************************************************************************)
NonConforming(a) ==
  /\ a.kind = "object" /\ a.choices = 1 /\ a.tool_calls = 1
  /\ \/ a.ty # "function"
     \/ a.name # "search_required"
     \/ ~a.parses
     \/ a.search_required.t # "bool"
     \/ (a.search_required = JBool(TRUE) /\ a.query.t \in {"absent", "null"})

Rank(check) ==
  CASE check \in {"to_bytes", "from_slice"} -> 1
    [] check = "search_config" -> 2
    [] check \in {"server_mode", "backend", "endpoint"} -> 3
    [] check = "query" -> 4
    [] check = "consult" -> 5
    [] check = "api_key" -> 6
    [] check \in {"perform_search", "summarize_search"} -> 7
    [] OTHER -> 8

C10_ValidationOrder ==
  /\ \A i, j \in DOMAIN checks : i < j => Rank(checks[i]) <= Rank(checks[j])
  /\ (/\ Answered /\ req.search_config /\ ~IsStr(req.query)
      /\ req.backend \in {JStr("tavily"), JStr("bing")}
      /\ ~(cli.server /\ req.query_type = "Summarize"))
     => resp.text \in {"No query received.\n",
                       "The query supplied is not a String.\n"}

(***************************************************************************)
(* C11: a request whose verdict has needs_search false, and any Decision   *)
(* request, succeeds without a credential: for the backends tavily, bing   *)
(* and local_search_server an absent or wrong-typed api_key or endpoint    *)
(* causes no error response unless a search is going to run.               *)
(***************************************************************************)
\* the body has search_config and a string query, the backend is one of
\* the three, and the deployment mode allows the request
Admissible(r) ==
  /\ r.body = "json" /\ r.search_config /\ IsStr(r.query)
  /\ r.backend \in {JStr("tavily"), JStr("bing"), JStr("local_search_server")}
  /\ ~(cli.server /\ (r.query_type = "Summarize"
                       \/ r.backend = JStr("local_search_server")))

C11_NoCredentialNeeded ==
  (Answered /\ Admissible(req))
  => /\ reply # NoReply
     /\ (Accepted /\ (req.query_type = "Decision" \/ ~verdict.decision))
        => resp.status = 200

(***************************************************************************)
(* C12: when the completion service returns a hard failure (an error or a  *)
(* streaming result), the request ends with a 500 response, after one      *)
(* completion-service call and without any provider call.                  *)
(***************************************************************************)
C12_HardFailureIs500 ==
  reply.kind \in {"err", "stream"}
  => /\ Answered
     /\ resp.status = 500
     /\ Cardinality(ChatCalls) = 1
     /\ ProviderCalls = {}

\* a streaming result has been handled
C12_Witness == reply.kind = "stream" /\ Answered /\ Len(calls) = 1

(***************************************************************************)
(* C13: a request whose body is valid JSON but lacks search_config, lacks  *)
(* query, or has a query that is not a string is answered 400, never 500.  *)
(***************************************************************************)
C13_MissingFieldIs400 ==
  (/\ pc # "idle" /\ req.body = "json"
   /\ (~req.search_config \/ ~IsStr(req.query)))
  => (Answered /\ resp.status = 400)

(***************************************************************************)
(* C14: outside restricted mode a Complete or Summarize request with       *)
(* backend "local_search_server", no api_key and a verdict with            *)
(* needs_search true reaches a POST provider call to the endpoint of its   *)
(* search_config, or to the default loopback endpoint if it gives none; it *)
(* is never rejected as an unknown backend.                                *)
(***************************************************************************)
LocalRequest(r) ==
  /\ ~cli.server /\ Admissible(r)
  /\ r.query_type \in {"Complete", "Summarize"}
  /\ r.backend = JStr("local_search_server")
  /\ ~IsSome(r.api_key)
  /\ (IsSome(r.endpoint) => IsStr(r.endpoint))

C14_LocalBackendSelected ==
  (pc # "idle" /\ LocalRequest(req))
  => /\ pc \in {"consult", "search", "done"}
     /\ (Answered => reply # NoReply)
     /\ (Accepted /\ verdict.decision)
        => /\ ProviderCalls # {}
           /\ \A i \in ProviderCalls :
                /\ calls[i].method = "POST"
                /\ calls[i].endpoint =
                     (IF IsSome(req.endpoint) THEN req.endpoint.s
                      ELSE "https://localhost:3000/search")

(***************************************************************************)
(* C15: for every backend, when max_search_results (size_limit_per_result) *)
(* of the search_config is absent or not an unsigned integer, the value in *)
(* the SearchConfig built is the server's max_search_results               *)
(* (size_per_search_result), the same on every path.                       *)
(***************************************************************************)
C15_DefaultOnAbsence ==
  search_config # NoConfig
  => /\ ~IsU64(req.max_search_results)
        => search_config.max_search_results = cli.max_search_results
     /\ ~IsU64(req.size_limit_per_result)
        => search_config.size_limit_per_result = cli.size_per_search_result

(***************************************************************************)
(* C16: a successful Decision response is the JSON object with the keys    *)
(* decision and query, decision being the verdict's needs_search and query *)
(* the verdict's search_query, or the string "null" if it has none; a      *)
(* tavily request with an empty search_config is accepted in Decision      *)
(* mode.                                                                   *)
(***************************************************************************)
EmptySearchConfig(r) ==
  /\ r.search_config
  /\ ~IsSome(r.max_search_results) /\ ~IsSome(r.size_limit_per_result)
  /\ ~IsSome(r.api_key) /\ ~IsSome(r.endpoint)

C16_DecisionBody ==
  /\ (Answered /\ req.query_type = "Decision" /\ Accepted)
     => resp = JsonResponse(verdict.decision, "query",
                 IF verdict.decision THEN verdict.query ELSE JStr("null"))
  /\ (/\ Answered /\ req.query_type = "Decision" /\ Admissible(req)
      /\ req.backend = JStr("tavily") /\ EmptySearchConfig(req))
     => /\ reply # NoReply
        /\ Accepted => resp.status = 200

\* POST /query/decide with backend tavily and search_config {} was answered
\* for a verdict without a search
C16_Witness ==
  /\ Answered /\ req.query_type = "Decision" /\ Admissible(req)
  /\ req.backend = JStr("tavily") /\ EmptySearchConfig(req)
  /\ Accepted /\ ~verdict.decision
  /\ resp.json = [decision |-> FALSE, key |-> "query", val |-> JStr("null")]

(***************************************************************************)
(* C18: consult validates the reply before it reads the tool call: a reply *)
(* that did not end in a tool call, that has no choice, or whose first     *)
(* choice has no tool call is a classification failure, that is, no        *)
(* verdict is accepted and the handler does not abort.                     *)
(***************************************************************************)
NoToolCall(a) ==
  /\ a.kind = "object"
  /\ (a.choices = 0 \/ a.tool_calls = 0 \/ a.finish_reason # "tool_calls")

C18_ValidatedBeforeRead ==
  NoToolCall(reply) => (~Accepted /\ pc # "aborted")

(***************************************************************************)
(* C19: in Complete and Summarize mode a provider call is made only after  *)
(* a verdict with needs_search true was accepted and the credential checks *)
(* passed; at most one provider call is made per request; Complete calls   *)
(* only perform_search and Summarize only summarize_search; a 200 response *)
(* with decision true and a results field comes only after the provider    *)
(* call returned successfully; a provider failure yields 500.              *)
(***************************************************************************)
C19_SearchAfterVerdict ==
  /\ Cardinality(ProviderCalls) <= 1
  /\ \A i \in ProviderCalls :
       /\ Accepted /\ verdict.decision
       /\ IsStr(req.api_key)
       /\ i = Len(calls)
       /\ calls[i].svc = (IF req.query_type = "Complete"
                          THEN "perform_search" ELSE "summarize_search")
       /\ req.query_type # "Decision"
  /\ (resp.status = 200 /\ resp.json.decision /\ resp.json.key = "results")
     => (ProviderCalls # {} /\ result = "ok")
  /\ result = "ok"
     => resp = JsonResponse(TRUE, "results",
                 IF req.query_type = "Complete" THEN JResults
                 ELSE JStr("summary"))
  /\ result = "err" => resp.status = 500
  /\ result # "none" => (Answered /\ ProviderCalls # {})

\* a Summarize request got its summary
C19_Witness ==
  /\ Answered /\ req.query_type = "Summarize" /\ result = "ok"
  /\ resp.status = 200 /\ resp.json.val = JStr("summary")

(***************************************************************************)
(* C20: a request that reaches query_handler ends with a response, given   *)
(* that the completion-service call and the provider call return: for      *)
(* every body and every reply of the completion service (an empty list of  *)
(* choices or of tool calls, search_required true with a query that is     *)
(* neither null nor a string) the handler returns a status and a body and  *)
(* does not abort.                                                         *)
(***************************************************************************)
C20_AlwaysResponds == pc # "aborted"

(***************************************************************************)
(* C17: concurrent requests do not interfere.  The startup configuration   *)
(* is set once, before any request is handled, and never written again;    *)
(* and for every interleaving of the requests in flight at their await     *)
(* points, the response of each request is the response it gets when it    *)
(* runs alone with the same body, the same reply of the completion service *)
(* and the same result of the provider.                                    *)
(***************************************************************************)
\* the response of a request that runs alone; NoResponse if it aborts
Alone(r, a, res) ==
  LET o1 == HandlerPrefix(r, cli, build) IN
  IF o1.kind # "call" THEN o1.resp
  ELSE LET v == Consult(a) IN
       IF v.kind = "err"
       THEN internal_server_error("Error while generating response from LLM.\n")
       ELSE IF v.kind = "panic" THEN NoResponse
       ELSE LET o2 == ResponseArm(r, o1.cfg, v) IN
            IF o2.kind # "call" THEN o2.resp
            ELSE SearchResponse(o2.call.svc, v, res = "ok")

AllLocals == {Locals} \cup {tasks[i] : i \in DOMAIN tasks}

AsAlone ==
  /\ \A l \in AllLocals :
       /\ l.pc # "idle" => cli # NoCli
       /\ l.pc = "done" => l.resp = Alone(l.req, l.reply, l.result)
       /\ l.pc = "aborted" => Alone(l.req, l.reply, l.result) = NoResponse

C17_NoInterference ==
  /\ []AsAlone
  /\ [][cli # NoCli => cli' = cli]_vars

\* a request was answered from its provider's result while another request
\* waits for its own provider
C17_Witness ==
  /\ pc = "done" /\ result = "ok" /\ resp.status = 200
  /\ \E i \in DOMAIN tasks :
       /\ tasks[i].pc = "search"
       /\ tasks[i].req # req

====
